---------------------------- MODULE Spec2Model ----------------------------
(***************************************************************************)
(* git-sync (src/sync.py): a scheduled directory synchronisation helper.   *)
(*                                                                         *)
(* Two parts of the program are modelled:                                  *)
(*                                                                         *)
(*  - the process lifecycle (pid_lock, daemonize, run_loop, main,          *)
(*    stop_daemon): several invocations of the `run` and `sync` commands   *)
(*    race for one lock path.  Specification SpecLock (SpecLockFair adds   *)
(*    the scheduler's fairness).  A pass of sync_all is the interval       *)
(*    between PassBegin and PassEnd/PassFail.                              *)
(*                                                                         *)
(*  - the synchronisation pass (sync_all, sync_entry and the git helpers)  *)
(*    of one invocation over the tracked entries.  Specification SpecSync. *)
(***************************************************************************)
EXTENDS Integers, Sequences, FiniteSets, TLC

VARIABLES
    proc,      \* lifecycle: per invocation, its position, arguments and flags
    lock,      \* lifecycle: the lock file at the lock path
    pidf,      \* lifecycle: the pid file (content, or NoPid when absent)
    cfg,       \* pass: the configuration store and the command's arguments
    sa,        \* pass: sync_all's position in the entry list
    se,        \* pass: sync_entry's position and local variables
    repo,      \* pass: the repository at the path of the entry being synchronised
    log,       \* pass: the commands sync_entry issued for that entry, in order
    store,     \* configuration: the configuration file (config.json)
    out        \* configuration: the last command, its arguments and what it reported

lockVars == <<proc, lock, pidf>>

syncVars == <<cfg, sa, se, repo, log>>

confVars == <<store, out>>

vars == <<proc, lock, pidf, cfg, sa, se, repo, log, store, out>>

---------------------------------------------------------------------------
(* Bounds *)

MaxProc == 2         \* concurrent invocations against the same lock path
MaxEntries == 2      \* tracked entries in the configuration store
MaxAhead == 2        \* local commits the remote-tracking branch lacks (counted to)
MaxInterval == 3     \* the largest interval, in minutes, stored or given
MaxBehind == 1       \* remote commits the local branch lacks (counted to)

Invs == 1..MaxProc

---------------------------------------------------------------------------
(* Process ids and files *)

\* A pid is <<invocation, generation>>: generation 0 is the process the shell
\* started, 1 and 2 are the children of daemonize's two forks.
Pid(i, g) == <<i, g>>

NoPid == <<-1, -1>>          \* no such file / no pid read
Unparsable == <<-1, 0>>      \* file content that int() rejects (e.g. empty)
DeadPid == <<0, 0>>          \* a pid of no live process (os.kill: ESRCH)
ForeignPid == <<0, 1>>       \* a live process of another user (os.kill: EPERM)

NoFile == [ino |-> -1, content |-> NoPid]

\* The file an invocation creates is identified by its creator (an inode);
\* ino 0 is a file that was there before any invocation started.
File(ino, content) == [ino |-> ino, content |-> content]

Terminal == {"done", "aborted", "killed"}

\* os.getpid() of the process that currently carries invocation i
getpid(i) == Pid(i, proc[i].gen)

Running(i) == proc[i].pc \notin (Terminal \cup {"new"})

\* os.kill(pid, 0)
KillProbe(pid) ==
    IF pid = ForeignPid THEN "eperm"
    ELSE IF \E i \in Invs : Running(i) /\ getpid(i) = pid THEN "ok"
    ELSE "esrch"

Sat(n, cap) == IF n < cap THEN n + 1 ELSE cap

\* An invocation: its position (pc), its arguments (cmd; --daemon and --once
\* are drawn where run_loop first reads them, lines 509 and 522, and once is
\* remembered from then on: "unread", "yes" or "no"), the generation of the
\* process carrying it, the stop flag of run_loop, the pid
\* read from the lock file, and what happened to it so far: the error it ended
\* with, whether it entered the locked scope, ran the finally block of
\* pid_lock, went through stale-lock recovery, started a pass, and how many
\* passes it started with the stop flag already set (counted to 2).
NewProc == [pc |-> "new", cmd |-> "run", once |-> "unread",
            gen |-> 0, stop |-> FALSE, stale |-> NoPid,
            err |-> "none", entered |-> FALSE, released |-> FALSE,
            recovered |-> FALSE, synced |-> FALSE, afterStop |-> 0]

\* A process that ended: its arguments and local variables are gone; what
\* stays is how it ended and whether it had entered and released the lock.
Ended(p, pcv, e) ==
    [NewProc EXCEPT !.pc = pcv, !.err = e, !.cmd = p.cmd,
                    !.entered = p.entered, !.synced = p.synced]

\* A process on its way out through the finally blocks (lines 525-526 and
\* 161-163): the loop's variables are read no more.
Leaving(p, pcv, e) ==
    [p EXCEPT !.pc = pcv, !.err = e, !.once = "unread", !.stop = FALSE,
              !.recovered = FALSE, !.afterStop = 0]

---------------------------------------------------------------------------
(* main: an invocation of `sync` or `run` starts *)

\* main(argv), lines 604-616: `sync` goes straight to pid_lock (610-611);
\* `run` calls run_loop, which loads the configuration, creates the stop flag
\* and installs the handlers for SIGTERM and SIGINT (493-507) before it comes to
\* pid_lock.  Every `run` is given --pidfile, the same path.
Start(i) ==
    /\ proc[i].pc = "new"
    /\ \/ proc' = [proc EXCEPT ![i].pc = "open", ![i].cmd = "sync"]
       \/ proc' = [proc EXCEPT ![i].pc = "open", ![i].cmd = "run"]
    /\ UNCHANGED <<lock, pidf, cfg, sa, se, repo, log, store, out>>

---------------------------------------------------------------------------
(* pid_lock *)

\* line 134: os.open(lock_path, O_CREAT | O_EXCL | O_WRONLY)
LockOpen(i) ==
    /\ proc[i].pc = "open"
    /\ IF lock = NoFile
       THEN /\ lock' = File(i, Unparsable)
            /\ proc' = [proc EXCEPT ![i].pc = "write"]
       ELSE /\ lock' = lock
            /\ proc' = [proc EXCEPT ![i].pc = "read"]
    /\ UNCHANGED <<pidf, cfg, sa, se, repo, log, store, out>>

\* lines 136-141, 154-155: read the recorded pid; anything int() rejects (and
\* a file that vanished meanwhile) gives stale_pid = None and aborts.
LockRead(i) ==
    /\ proc[i].pc = "read"
    /\ IF lock = NoFile \/ lock.content = Unparsable
       THEN proc' = [proc EXCEPT ![i] = Ended(@, "aborted", "exists")]
       ELSE proc' = [proc EXCEPT ![i].pc = "kill", ![i].stale = lock.content]
    /\ UNCHANGED <<lock, pidf, cfg, sa, se, repo, log, store, out>>

\* a liveness probe that takes every recorded pid for a dead one
LockKillTakesAllForStale(i) ==
    /\ proc[i].pc = "kill"
    /\ proc' = [proc EXCEPT ![i].pc = "unlink"]
    /\ UNCHANGED <<lock, pidf, cfg, sa, se, repo, log, store, out>>

\* lines 142-153: os.kill(stale_pid, 0)
LockKill(i) ==
    /\ proc[i].pc = "kill"
    /\ LET r == KillProbe(proc[i].stale) IN
         proc' = [proc EXCEPT ![i] =
                    CASE r = "ok" -> Ended(@, "aborted", "running")
                      [] r = "eperm" -> Ended(@, "aborted", "inaccessible")
                      [] OTHER -> [@ EXCEPT !.pc = "unlink"]]
    /\ UNCHANGED <<lock, pidf, cfg, sa, se, repo, log, store, out>>

\* lines 147-148: the stale file is removed (whatever is at the path now)
LockUnlinkStale(i) ==
    /\ proc[i].pc = "unlink"
    /\ lock' = NoFile
    /\ proc' = [proc EXCEPT ![i].pc = "retry", ![i].recovered = TRUE,
                            ![i].stale = NoPid]
    /\ UNCHANGED <<pidf, cfg, sa, se, repo, log, store, out>>

\* line 149: the one retry; FileExistsError is not caught here
LockRetry(i) ==
    /\ proc[i].pc = "retry"
    /\ IF lock = NoFile
       THEN /\ lock' = File(i, Unparsable)
            /\ proc' = [proc EXCEPT ![i].pc = "write"]
       ELSE /\ lock' = lock
            /\ proc' = [proc EXCEPT ![i] = Ended(@, "aborted", "fileexists")]
    /\ UNCHANGED <<pidf, cfg, sa, se, repo, log, store, out>>

\* lines 157-160: write the pid through the descriptor and yield.  The write
\* reaches the path only while the path still names the file this invocation
\* created.
LockWrite(i) ==
    /\ proc[i].pc = "write"
    /\ lock' = IF lock.ino = i THEN File(i, getpid(i)) ELSE lock
    /\ proc' = [proc EXCEPT ![i].pc = "entered", ![i].entered = TRUE]
    /\ UNCHANGED <<pidf, cfg, sa, se, repo, log, store, out>>

\* lines 161-163: finally: lock_path.unlink(), OSError suppressed
LockRelease(i) ==
    /\ proc[i].pc = "unlock"
    /\ lock' = NoFile
    /\ proc' = [proc EXCEPT ![i] = [Ended(@, "done", @.err) EXCEPT !.released = TRUE]]
    /\ UNCHANGED <<pidf, cfg, sa, se, repo, log, store, out>>

---------------------------------------------------------------------------
(* run_loop inside the lock; daemonize *)

\* line 509: if args.daemon
EnterScope(i) ==
    /\ proc[i].pc = "entered"
    /\ proc[i].cmd = "run"
    /\ \E daemon \in BOOLEAN :
         proc' = [proc EXCEPT ![i].pc = IF daemon THEN "fork1" ELSE "wpid",
                              ![i].recovered = FALSE]
    /\ UNCHANGED <<lock, pidf, cfg, sa, se, repo, log, store, out>>

\* daemonize lines 181-182: fork; the parent leaves through os._exit(0), which
\* runs no finally block; the child carries the invocation on.
Fork1(i) ==
    /\ proc[i].pc = "fork1"
    /\ proc' = [proc EXCEPT ![i].pc = "fork2", ![i].gen = 1]
    /\ UNCHANGED <<lock, pidf, cfg, sa, se, repo, log, store, out>>

\* daemonize lines 183-185: setsid, second fork, the first child exits
Fork2(i) ==
    /\ proc[i].pc = "fork2"
    /\ proc' = [proc EXCEPT ![i].pc = "wpid", ![i].gen = 2]
    /\ UNCHANGED <<lock, pidf, cfg, sa, se, repo, log, store, out>>

\* write_pidfile lines 166-170 (called at 207 in daemon mode, at 517 otherwise)
WritePidfile(i) ==
    /\ proc[i].pc = "wpid"
    /\ pidf' = getpid(i)
    /\ proc' = [proc EXCEPT ![i].pc = "loop"]
    /\ UNCHANGED <<lock, cfg, sa, se, repo, log, store, out>>

\* line 521 (run) and line 612 (sync): sync_all is entered
PassBegin(i) ==
    /\ \/ proc[i].cmd = "run" /\ proc[i].pc = "loop"
       \/ proc[i].cmd = "sync" /\ proc[i].pc = "entered"
    /\ proc' = [proc EXCEPT ![i].pc = "pass",
                            ![i].synced = TRUE,
                            ![i].recovered = FALSE,
                            ![i].afterStop = IF proc[i].stop THEN Sat(@, 2) ELSE @]
    /\ UNCHANGED <<lock, pidf, cfg, sa, se, repo, log, store, out>>

\* sync_all returns (lines 480-489): every entry was attempted
PassEnd(i) ==
    /\ proc[i].pc = "pass"
    /\ proc' = [proc EXCEPT ![i] = IF proc[i].cmd = "run"
                                    THEN [@ EXCEPT !.pc = "check"]
                                    ELSE Leaving(@, "unlock", @.err)]
    /\ UNCHANGED <<lock, pidf, cfg, sa, se, repo, log, store, out>>

\* sync_all raises: Config.load (line 481) fails on a corrupt configuration
\* store; the exception leaves the while loop and the with block.
PassFail(i) ==
    /\ proc[i].pc = "pass"
    /\ proc' = [proc EXCEPT ![i] =
                   Leaving(@, IF proc[i].cmd = "run" THEN "rmpid" ELSE "unlock",
                           "exception")]
    /\ UNCHANGED <<lock, pidf, cfg, sa, se, repo, log, store, out>>

\* lines 522-524: the stop flag is read only here
CheckStop(i) ==
    /\ proc[i].pc = "check"
    /\ \E once \in IF proc[i].once = "unread" THEN {"yes", "no"} ELSE {proc[i].once} :
         proc' = [proc EXCEPT ![i] = IF once = "yes" \/ proc[i].stop
                                      THEN Leaving(@, "rmpid", @.err)
                                      ELSE [@ EXCEPT !.pc = "sleep", !.once = once]]
    /\ UNCHANGED <<lock, pidf, cfg, sa, se, repo, log, store, out>>

\* line 524: time.sleep(interval * 60) returns; a handled signal does not cut
\* it short (the call is resumed after the handler returns)
SleepEnd(i) ==
    /\ proc[i].pc = "sleep"
    /\ proc' = [proc EXCEPT ![i].pc = "loop"]
    /\ UNCHANGED <<lock, pidf, cfg, sa, se, repo, log, store, out>>

\* lines 525-526 and 173-177: finally: remove_pidfile
RemovePidfile(i) ==
    /\ proc[i].pc = "rmpid"
    /\ pidf' = NoPid
    /\ proc' = [proc EXCEPT ![i].pc = "unlock"]
    /\ UNCHANGED <<lock, cfg, sa, se, repo, log, store, out>>

---------------------------------------------------------------------------
(* Signals *)

\* a handler that raises out of whatever the loop is doing
HandleSignalRaises(i) ==
    proc' = [proc EXCEPT ![i] =
               IF @.pc \in {"loop", "pass", "sleep", "check"}
               THEN Leaving([@ EXCEPT !.stop = TRUE], "rmpid", "interrupted")
               ELSE [@ EXCEPT !.stop = TRUE]]

\* _handle_signal, lines 501-505: with the handlers installed SIGTERM and
\* SIGINT only set the stop flag.
HandleSignal(i) ==
    proc' = [proc EXCEPT ![i].stop = TRUE]

\* SIGTERM with the default disposition: the process dies at once, no finally
\* block runs.
DefaultTerm(i) ==
    proc' = [proc EXCEPT ![i] = Ended(@, "killed", "sigterm")]

\* SIGINT with the default handler: KeyboardInterrupt is raised where the
\* process stands; inside the try of pid_lock (lines 157-163) the finally block
\* runs, before it nothing is cleaned up.
DefaultInt(i) ==
    \/ /\ proc[i].pc \in {"open", "read", "kill", "unlink", "retry", "write"}
       /\ proc' = [proc EXCEPT ![i] = Ended(@, "aborted", "interrupt")]
    \/ /\ proc[i].pc \in {"write", "entered", "pass"}
       /\ proc' = [proc EXCEPT ![i] = Leaving(@, "unlock", "interrupt")]

\* run_loop installs the handlers (504-505); main installs none for `sync`
HandlersInstalled(i) ==
    proc[i].cmd = "run"

\* SIGTERM or SIGINT from outside (kill, Ctrl-C, the service manager) reaches
\* the process that carries invocation i.
Signal(i) ==
    /\ Running(i)
    /\ IF HandlersInstalled(i) THEN HandleSignal(i)
       ELSE DefaultTerm(i) \/ DefaultInt(i)
    /\ UNCHANGED <<lock, pidf, cfg, sa, se, repo, log, store, out>>

\* stop_daemon, lines 529-545: SIGTERM to the pid the pid file records
StopDaemon ==
    /\ pidf # NoPid
    /\ \E i \in Invs :
         /\ Running(i)
         /\ getpid(i) = pidf
         /\ IF HandlersInstalled(i) THEN HandleSignal(i) ELSE DefaultTerm(i)
    /\ UNCHANGED <<lock, pidf, cfg, sa, se, repo, log, store, out>>

---------------------------------------------------------------------------
(* Lifecycle specification *)

\* the steps the process of invocation i takes by itself
Step(i) ==
    \/ LockOpen(i)
    \/ LockRead(i)
    \/ LockKill(i)
    \/ LockUnlinkStale(i)
    \/ LockRetry(i)
    \/ LockWrite(i)
    \/ EnterScope(i)
    \/ Fork1(i)
    \/ Fork2(i)
    \/ WritePidfile(i)
    \/ PassBegin(i)
    \/ PassEnd(i)
    \/ PassFail(i)
    \/ CheckStop(i)
    \/ SleepEnd(i)
    \/ RemovePidfile(i)
    \/ LockRelease(i)


LockNext ==
    \/ \E i \in Invs : Start(i)
    \/ \E i \in Invs : Step(i)
    \/ \E i \in Invs : Signal(i)
    \/ StopDaemon

---------------------------------------------------------------------------
(* Lifecycle properties *)

\* Inside the locked scope: after the yield of pid_lock (line 160) and before
\* its finally block (line 161).
InScope(i) ==
    proc[i].pc \in {"entered", "fork1", "fork2", "wpid", "loop", "pass",
                    "check", "sleep", "rmpid"}

\* Invocation i takes a step of its own out of position pcv (no signal ended it).
Leaves(i, pcv) ==
    /\ proc[i].pc = pcv
    /\ proc'[i].pc # pcv
    /\ proc'[i].err \notin {"interrupt", "sigterm"}

\* C1: at no time are two live invocations both inside the locked scope.
C1_MutualExclusion ==
    Cardinality({i \in Invs : InScope(i)}) <= 1

\* C2 as stated: an invocation whose liveness probe finds the recorded pid
\* alive ends with the "another instance is running" error, having entered
\* nothing and started no pass, and its step leaves the lock file untouched.
C2_LiveHolderRunningError ==
    [][\A i \in Invs :
         (Leaves(i, "kill") /\ KillProbe(proc[i].stale) # "esrch")
           => /\ proc'[i].pc = "aborted"
              /\ proc'[i].err = "running"
              /\ ~proc'[i].entered /\ ~proc'[i].synced
              /\ lock' = lock]_vars

\* C2 amended: the invocation aborts with an error ("another instance is
\* running" when the probe succeeds, "pid not accessible" when the probe is
\* refused), never enters the scope, never starts a pass and leaves the lock
\* file untouched.
C2_LiveHolderAborts ==
    /\ [][\A i \in Invs :
            (Leaves(i, "kill") /\ KillProbe(proc[i].stale) # "esrch")
              => /\ proc'[i].pc = "aborted"
                 /\ proc'[i].err = IF KillProbe(proc[i].stale) = "ok"
                                   THEN "running" ELSE "inaccessible"
                 /\ lock' = lock]_vars
    /\ [](\A i \in Invs :
            proc[i].err \in {"running", "inaccessible"}
              => proc[i].pc = "aborted" /\ ~proc[i].entered /\ ~proc[i].synced)

\* C2 witness: an invocation was turned away by a live holder, whose lock file
\* is still in place with the holder's pid.
C2_Witness ==
    \E i, j \in Invs :
        /\ proc[i].pc = "aborted" /\ proc[i].err = "running"
        /\ InScope(j) /\ lock = File(j, getpid(j))

\* C5: an invocation that went through stale-lock recovery enters the scope
\* holding a lock file with its own pid, and one whose single retry failed
\* never entered.
C5_StaleRecovery ==
    \A i \in Invs :
        /\ (proc[i].recovered /\ proc[i].pc = "entered")
             => lock = File(i, getpid(i))
        /\ proc[i].err = "fileexists" => ~proc[i].entered

\* C6: an invocation that entered the locked scope and is gone has run the
\* finally block that removes the lock file.
C6_LockReleased ==
    \A i \in Invs :
        (proc[i].entered /\ proc[i].pc \in Terminal) => proc[i].released

\* C10: a signal to a run loop never takes it out of a pass; the loop is left
\* only at the check after a pass (or by an exception of the pass); at most one
\* pass starts with the stop flag set; a signalled loop ends, and a loop that
\* had entered the scope ends through the finally blocks, which remove the pid
\* file and the lock file.
C10_StopAtBoundary ==
    /\ [][\A i \in Invs :
            /\ (proc[i].cmd = "run" /\ proc[i].pc = "pass"
                  /\ ~proc[i].stop /\ proc'[i].stop)
                 => proc'[i].pc = "pass"
            /\ (proc[i].cmd = "run" /\ proc[i].pc \in {"loop", "pass", "sleep"}
                  /\ proc'[i].pc \notin {"loop", "pass", "sleep", "check"})
                 => (proc[i].pc = "pass" /\ proc'[i].pc = "rmpid"
                       /\ proc'[i].err = "exception")
            /\ (proc[i].pc = "rmpid" /\ proc'[i].pc # "rmpid")
                 => (proc'[i].pc = "unlock" /\ pidf' = NoPid)
            /\ (proc[i].cmd = "run" /\ proc[i].pc = "unlock" /\ proc'[i].pc # "unlock")
                 => (proc'[i].pc = "done" /\ lock' = NoFile)]_vars
    /\ [](\A i \in Invs :
            /\ proc[i].afterStop <= 1
            /\ (proc[i].cmd = "run" /\ proc[i].entered /\ proc[i].pc \in Terminal)
                 => (proc[i].pc = "done" /\ proc[i].released))
    /\ \A i \in Invs :
         (proc[i].cmd = "run" /\ proc[i].stop) ~> (proc[i].pc \in Terminal)

\* C10 witness: a pass is in progress that was started after the signal.
C10_Witness ==
    \E i \in Invs :
        proc[i].cmd = "run" /\ proc[i].pc = "pass" /\ proc[i].stop
          /\ proc[i].afterStop = 1

---------------------------------------------------------------------------
(* The synchronisation pass: data *)

NoRemote == "none"      \* Entry.remote is None / the repository has no origin
PinnedBranch == "main"  \* Entry.branch (line 49, the default)
OtherBranch == "master" \* what a plain `git init` or the user checked out

\* Optional[bool] (sync_entry's push_override): <<>> is None, <<b>> is b
None == <<>>
Some(b) == <<b>>

\* One tracked entry (lines 36-42); the path is the entry's key.
EntryOf(path, remote, push) == [path |-> path, remote |-> remote, push |-> push]

Paths == 1..MaxEntries

\* The entry lists a configuration store can hold: paths are unique, in
\* insertion order.
EntryLists ==
    UNION {[1..n -> {EntryOf(0, r, p) : r \in {NoRemote, "u1"}, p \in BOOLEAN}]
             : n \in 0..MaxEntries}

Keyed(es) == [k \in DOMAIN es |-> [es[k] EXCEPT !.path = k]]

\* A directory with no .git (repo_exists, lines 210-211, is false)
NoRepo == [exists |-> FALSE, head |-> PinnedBranch, origin |-> NoRemote,
           other |-> FALSE, dirty |-> FALSE, tracking |-> FALSE,
           ahead |-> 0, behind |-> 0, rebasing |-> FALSE]

\* The repositories a pass can find at a path: head is the checked-out branch,
\* origin the URL of the remote named "origin", other whether a remote of
\* another name exists, dirty whether `git status --porcelain` prints anything,
\* tracking whether refs/remotes/origin/<branch> exists, ahead and behind the
\* commits each side lacks, rebasing whether a rebase was left unfinished.
RepoStates ==
    {NoRepo} \cup
    {r \in [exists : {TRUE}, head : {PinnedBranch, OtherBranch},
            origin : {NoRemote, "u1", "u2"}, other : BOOLEAN, dirty : BOOLEAN,
            tracking : BOOLEAN, ahead : 0..MaxAhead, behind : 0..MaxBehind,
            rebasing : {FALSE}] :
        /\ (r.origin = NoRemote => ~r.tracking)
        /\ (~r.tracking => r.behind = 0)}

\* sync_entry's frame: its position, the effective push flag (line 420), the
\* counts of lines 468 and 472, and whether has_changes was true at the call
Idle == [pc |-> "idle", push |-> FALSE, ahead |-> 0, behind |-> 0,
         dirty0 |-> FALSE, diverged |-> FALSE]

\* the entry sync_entry is working on
Entry == cfg.entries[sa.idx]

Op(name, ok) == <<name, ok>>

Issued(name) == \E k \in DOMAIN log : log[k][1] = name

Has(name, ok) == \E k \in DOMAIN log : log[k] = Op(name, ok)

---------------------------------------------------------------------------
(* The git helpers *)

\* remote_exists, lines 242-247: `git remote` prints at least one name
remote_exists(r) == r.origin # NoRemote \/ r.other

\* has_changes, lines 258-260
has_changes(r) == r.dirty

\* origin_branch_exists, lines 263-265
origin_branch_exists(r) == r.tracking

\* ahead_behind, lines 268-290: (0, 0) without a remote-tracking branch
ahead_behind(r) ==
    IF ~origin_branch_exists(r) THEN <<0, 0>> ELSE <<r.ahead, r.behind>>

\* a commit step without the has_changes test: on a clean tree the add runs
\* and the commit is declined
CommitPolicyAlways(r) ==
    IF ~has_changes(r)
    THEN {[repo |-> r, ops |-> <<Op("add", TRUE), Op("commit", FALSE)>>,
           raised |-> FALSE]}
    ELSE {[repo |-> r, ops |-> <<Op("add", FALSE)>>, raised |-> TRUE],
          [repo |-> [r EXCEPT !.dirty = FALSE, !.ahead = Sat(@, MaxAhead)],
           ops |-> <<Op("add", TRUE), Op("commit", TRUE), Op("log-committed", TRUE)>>,
           raised |-> FALSE],
          [repo |-> r,
           ops |-> <<Op("add", TRUE), Op("commit", FALSE), Op("log-committed", TRUE)>>,
           raised |-> FALSE]}

\* Lines 430-435, 442-447 and 460-465 with commit_changes (293-298): what the
\* commit policy can do to repository r.  `git add -A` runs with check=True and
\* may raise; `git commit` runs with check=False and may decline.
\* commit_changes returns True once both commands ran (line 298), and the
\* caller then logs "Committed changes" (recorded as "log-committed").
CommitPolicy(r) ==
    IF ~has_changes(r)
    THEN {[repo |-> r, ops |-> <<>>, raised |-> FALSE]}
    ELSE {[repo |-> r, ops |-> <<Op("add", FALSE)>>, raised |-> TRUE],
          [repo |-> [r EXCEPT !.dirty = FALSE, !.ahead = Sat(@, MaxAhead)],
           ops |-> <<Op("add", TRUE), Op("commit", TRUE), Op("log-committed", TRUE)>>,
           raised |-> FALSE],
          [repo |-> r,
           ops |-> <<Op("add", TRUE), Op("commit", FALSE), Op("log-committed", TRUE)>>,
           raised |-> FALSE]}

\* sync_entry line 420
EffectivePush(entry, push_override) ==
    IF push_override = None THEN entry.push ELSE push_override[1]

\* sync_all line 487: the override handed to sync_entry is args.no_push_all,
\* which argparse's store_true makes True or False, never None
PushOverrideArg(no_push_all) == Some(no_push_all)

---------------------------------------------------------------------------
(* sync_all *)

\* sync_all lines 481-484: the configuration is loaded; an empty list returns
SyncAllBegin ==
    /\ sa.pc \in {"idle", "done"}
    /\ sa' = [pc |-> IF Len(cfg.entries) = 0 THEN "done" ELSE "loop",
              idx |-> 1, attempted |-> <<>>, failed |-> {}, again |-> sa.again,
              edited |-> sa.edited]
    /\ UNCHANGED <<cfg, se, repo, log, proc, lock, pidf, store, out>>

\* lines 485-487: the next entry's sync_entry is called.  The model keeps one
\* repository: at the path of the last procedure it is as that procedure and
\* the user left it (sa.again), at another path it is whatever is there.
SyncEntryCall ==
    /\ sa.pc = "loop"
    /\ se.pc = "idle"
    /\ IF sa.again THEN repo' = repo ELSE repo' \in RepoStates
    /\ se' = [Idle EXCEPT !.pc = "ensure",
                          !.push = EffectivePush(Entry, PushOverrideArg(cfg.no_push_all)),
                          !.dirty0 = has_changes(repo')]
    /\ sa' = [sa EXCEPT !.attempted = Append(@, Entry.path)]
    /\ log' = <<>>
    /\ UNCHANGED <<cfg, proc, lock, pidf, store, out>>

\* a loop without the try/except: the first entry that raises ends the pass
SyncEntryDoneStopsAtFailure ==
    /\ sa.pc = "loop"
    /\ se.pc \in {"ret", "raised"}
    /\ sa' = [sa EXCEPT !.pc = IF sa.idx = Len(cfg.entries) \/ se.pc = "raised"
                               THEN "done" ELSE "loop",
                        !.idx = IF sa.idx = Len(cfg.entries) \/ se.pc = "raised"
                                THEN @ ELSE @ + 1,
                        !.failed = IF se.pc = "raised" THEN @ \cup {Entry.path} ELSE @,
                        !.again = (Len(cfg.entries) = 1),
                        !.edited = FALSE]
    /\ se' = Idle
    /\ log' = <<>>
    /\ repo' = IF Len(cfg.entries) = 1 THEN repo ELSE NoRepo
    /\ UNCHANGED <<cfg, proc, lock, pidf, store, out>>

\* lines 485-489: sync_entry returned or raised; an Exception is caught and
\* logged, and the loop goes on to the next entry
SyncEntryDone ==
    /\ sa.pc = "loop"
    /\ se.pc \in {"ret", "raised"}
    /\ sa' = [sa EXCEPT !.pc = IF sa.idx = Len(cfg.entries) THEN "done" ELSE "loop",
                        !.idx = IF sa.idx = Len(cfg.entries) THEN @ ELSE @ + 1,
                        !.failed = IF se.pc = "raised" THEN @ \cup {Entry.path} ELSE @,
                        !.again = (Len(cfg.entries) = 1),
                        !.edited = FALSE]
    /\ se' = Idle
    /\ log' = <<>>
    /\ repo' = IF Len(cfg.entries) = 1 THEN repo ELSE NoRepo
    /\ UNCHANGED <<cfg, proc, lock, pidf, store, out>>

\* between two passes the user changes files in the working directory
Edit ==
    /\ sa.pc = "done"
    /\ sa.again
    /\ repo.exists
    /\ ~repo.dirty
    /\ repo' = [repo EXCEPT !.dirty = TRUE]
    /\ sa' = [sa EXCEPT !.edited = TRUE]
    /\ UNCHANGED <<cfg, se, log, proc, lock, pidf, store, out>>

---------------------------------------------------------------------------
(* sync_entry *)

\* run_git, lines 115-127: a command that does not finish within the timeout
\* raises TimeoutExpired, which no helper catches
GitTimeout ==
    /\ \/ se.pc \in {"upsert", "align", "gate", "remote", "fetch", "commit",
                     "diverge", "decide"}
       \/ se.pc = "ensure" /\ ~repo.exists
    /\ se' = [se EXCEPT !.pc = "raised"]
    /\ UNCHANGED <<cfg, sa, repo, log, proc, lock, pidf, store, out>>

\* ensure_repo, lines 214-227 (called at 421)
EnsureRepo ==
    /\ se.pc = "ensure"
    /\ IF repo.exists
       THEN /\ se' = [se EXCEPT !.pc = "upsert"]
            /\ UNCHANGED <<repo, log>>
       ELSE \E init \in {"branch", "fallback", "fallback-stay", "fail"} :
              LET made == [NoRepo EXCEPT
                             !.exists = TRUE,
                             !.head = IF init = "fallback-stay"
                                      THEN OtherBranch ELSE PinnedBranch,
                             !.origin = Entry.remote]
                  ops == (IF init = "branch" THEN <<Op("init-b", TRUE)>>
                          ELSE <<Op("init-b", FALSE), Op("init", TRUE),
                                 Op("checkout", init = "fallback")>>)
                         \o (IF Entry.remote # NoRemote
                             THEN <<Op("remote-add", TRUE)>> ELSE <<>>)
              IN IF init = "fail"
                 THEN /\ se' = [se EXCEPT !.pc = "raised"]
                      /\ log' = log \o <<Op("init-b", FALSE), Op("init", FALSE)>>
                      /\ repo' = repo
                 ELSE /\ se' = [se EXCEPT !.pc = "upsert"]
                      /\ log' = log \o ops
                      /\ repo' = made
    /\ UNCHANGED <<cfg, sa, proc, lock, pidf, store, out>>

\* upsert_remote, lines 250-255 (called at 422)
UpsertRemote ==
    /\ se.pc = "upsert"
    /\ IF Entry.remote # NoRemote /\ ~remote_exists(repo)
       THEN /\ repo' = [repo EXCEPT !.origin = Entry.remote]
            /\ log' = Append(log, Op("remote-add", TRUE))
       ELSE UNCHANGED <<repo, log>>
    /\ se' = [se EXCEPT !.pc = "align"]
    /\ UNCHANGED <<cfg, sa, proc, lock, pidf, store, out>>

\* lines 424-427 with current_branch (230-235) and set_branch (238-239):
\* rev-parse may fail (then the pinned name is assumed and nothing is checked
\* out), and `checkout -B` runs with check=False
AlignBranch ==
    /\ se.pc = "align"
    /\ \E revparse \in BOOLEAN, checkout \in BOOLEAN :
         IF revparse /\ repo.head # PinnedBranch
         THEN /\ repo' = [repo EXCEPT !.head = IF checkout THEN PinnedBranch ELSE @]
              /\ log' = Append(log, Op("checkout", checkout))
         ELSE UNCHANGED <<repo, log>>
    /\ se' = [se EXCEPT !.pc = "gate"]
    /\ UNCHANGED <<cfg, sa, proc, lock, pidf, store, out>>

\* a push-off branch without its return: after the commit it goes on to the
\* remote steps
PushOffFallsThrough ==
    /\ se.pc = "gate"
    /\ ~se.push
    /\ \E c \in CommitPolicy(repo) :
         /\ repo' = c.repo
         /\ log' = log \o c.ops
         /\ se' = [se EXCEPT !.pc = IF c.raised THEN "raised" ELSE "remote"]
    /\ UNCHANGED <<cfg, sa, proc, lock, pidf, store, out>>

\* lines 429-438: push is off: commit and stop
PushOff ==
    /\ se.pc = "gate"
    /\ ~se.push
    /\ \E c \in CommitPolicy(repo) :
         /\ repo' = c.repo
         /\ log' = log \o c.ops
         /\ se' = [se EXCEPT !.pc = IF c.raised THEN "raised" ELSE "ret"]
    /\ UNCHANGED <<cfg, sa, proc, lock, pidf, store, out>>

\* line 429, push is on
PushOn ==
    /\ se.pc = "gate"
    /\ se.push
    /\ se' = [se EXCEPT !.pc = "remote"]
    /\ UNCHANGED <<cfg, sa, repo, log, proc, lock, pidf, store, out>>

\* lines 440-449: no remote: commit and stop
NoRemotePath ==
    /\ se.pc = "remote"
    /\ ~remote_exists(repo)
    /\ \E c \in CommitPolicy(repo) :
         /\ repo' = c.repo
         /\ log' = log \o c.ops
         /\ se' = [se EXCEPT !.pc = IF c.raised THEN "raised" ELSE "ret"]
    /\ UNCHANGED <<cfg, sa, proc, lock, pidf, store, out>>

\* lines 440 and 451-454: a remote exists: the connectivity probe
\* (online_host_port, 333-338) decides whether the pass goes on
Probe ==
    /\ se.pc = "remote"
    /\ remote_exists(repo)
    /\ \E up \in BOOLEAN :
         /\ log' = Append(log, Op("probe", up))
         /\ se' = [se EXCEPT !.pc = IF up THEN "fetch" ELSE "ret"]
    /\ UNCHANGED <<cfg, sa, repo, proc, lock, pidf, store, out>>

\* a fetch whose failure is not looked at: the pass goes on to the commit
FetchIgnoresFailure ==
    /\ se.pc = "fetch"
    /\ \/ /\ repo.origin # NoRemote
          /\ \E t \in {TRUE, repo.tracking}, b \in {repo.behind, Sat(repo.behind, MaxBehind)} :
               repo' = [repo EXCEPT !.tracking = t,
                                    !.behind = IF t THEN b ELSE 0]
          /\ log' = Append(log, Op("fetch", TRUE))
          /\ se' = [se EXCEPT !.pc = "commit"]
       \/ /\ repo' = repo
          /\ log' = Append(log, Op("fetch", FALSE))
          /\ se' = [se EXCEPT !.pc = "commit"]
    /\ UNCHANGED <<cfg, sa, proc, lock, pidf, store, out>>

\* fetch_remote, lines 311-316 (called at 456): `git fetch --prune origin
\* <branch>` needs a remote named origin; when it succeeds the remote-tracking
\* branch may have appeared and may have moved on
Fetch ==
    /\ se.pc = "fetch"
    /\ \/ /\ repo.origin # NoRemote
          /\ \E t \in {TRUE, repo.tracking}, b \in {repo.behind, Sat(repo.behind, MaxBehind)} :
               repo' = [repo EXCEPT !.tracking = t,
                                    !.behind = IF t THEN b ELSE 0]
          /\ log' = Append(log, Op("fetch", TRUE))
          /\ se' = [se EXCEPT !.pc = "commit"]
       \/ /\ repo' = repo
          /\ log' = Append(log, Op("fetch", FALSE))
          /\ se' = [se EXCEPT !.pc = "ret"]
    /\ UNCHANGED <<cfg, sa, proc, lock, pidf, store, out>>

\* lines 459-465: the commit after the fetch
CommitAfterFetch ==
    /\ se.pc = "commit"
    /\ \E c \in CommitPolicy(repo) :
         /\ repo' = c.repo
         /\ log' = log \o c.ops
         /\ se' = [se EXCEPT !.pc = IF c.raised THEN "raised" ELSE "diverge"]
    /\ UNCHANGED <<cfg, sa, proc, lock, pidf, store, out>>

\* a rebase step without line 472: the counts of line 468 are used on
DivergeKeepsCounts ==
    /\ se.pc = "diverge"
    /\ LET ab == ahead_behind(repo) IN
         IF ab[2] > 0
         THEN \/ /\ ~repo.dirty
                 /\ \E a \in 0..repo.ahead :
                      repo' = [repo EXCEPT !.behind = 0, !.ahead = a]
                 /\ log' = Append(log, Op("rebase", TRUE))
                 /\ se' = [se EXCEPT !.pc = "decide",
                                     !.ahead = ab[1], !.behind = ab[2],
                                     !.diverged = (ab[1] > 0)]
              \/ \E abort \in BOOLEAN :
                   /\ repo' = [repo EXCEPT !.rebasing = ~abort]
                   /\ log' = log \o <<Op("rebase", FALSE), Op("rebase-abort", abort)>>
                   /\ se' = [se EXCEPT !.pc = "ret", !.diverged = (ab[1] > 0)]
         ELSE /\ se' = [se EXCEPT !.pc = "decide", !.ahead = ab[1], !.behind = ab[2]]
              /\ UNCHANGED <<repo, log>>
    /\ UNCHANGED <<cfg, sa, proc, lock, pidf, store, out>>

\* lines 468-472 with rebase_onto_remote (319-326): git refuses to rebase a
\* dirty tree; a failed rebase is aborted, and the abort may fail too.  A
\* rebase that succeeds replays the local commits on the remote-tracking
\* branch and drops those whose change is already there, so the local branch
\* is no longer behind and is ahead by as many commits as were kept.
\* se.diverged remembers that line 468 found the branch both ahead and behind.
Diverge ==
    /\ se.pc = "diverge"
    /\ LET ab == ahead_behind(repo) IN
         IF ab[2] > 0
         THEN \/ /\ ~repo.dirty
                 /\ \E a \in 0..repo.ahead :
                      repo' = [repo EXCEPT !.behind = 0, !.ahead = a]
                 /\ log' = Append(log, Op("rebase", TRUE))
                 /\ se' = [se EXCEPT !.pc = "decide",
                                     !.ahead = ahead_behind(repo')[1],
                                     !.behind = ahead_behind(repo')[2],
                                     !.diverged = (ab[1] > 0)]
              \/ \E abort \in BOOLEAN :
                   /\ repo' = [repo EXCEPT !.rebasing = ~abort]
                   /\ log' = log \o <<Op("rebase", FALSE), Op("rebase-abort", abort)>>
                   /\ se' = [se EXCEPT !.pc = "ret", !.diverged = (ab[1] > 0)]
         ELSE /\ se' = [se EXCEPT !.pc = "decide", !.ahead = ab[1], !.behind = ab[2]]
              /\ UNCHANGED <<repo, log>>
    /\ UNCHANGED <<cfg, sa, proc, lock, pidf, store, out>>

\* rebase_onto_remote line 320 through run_git (lines 121-127): the rebase
\* does not finish within the timeout.  subprocess.run kills git, which may
\* have begun rewriting the branch, and raises TimeoutExpired;
\* rebase_onto_remote catches nothing, so lines 321-325 (the abort) do not run.
RebaseTimeout ==
    /\ se.pc = "diverge"
    /\ LET ab == ahead_behind(repo) IN
         /\ ab[2] > 0
         /\ \E begun \in BOOLEAN :
              repo' = [repo EXCEPT !.rebasing = @ \/ begun]
         /\ log' = Append(log, Op("rebase", FALSE))
         /\ se' = [se EXCEPT !.pc = "raised", !.diverged = (ab[1] > 0)]
    /\ UNCHANGED <<cfg, sa, proc, lock, pidf, store, out>>

\* a decision that looks at the ahead count only
DecideAheadOnly ==
    /\ se.pc = "decide"
    /\ IF se.ahead > 0
       THEN IF ~remote_exists(repo)
            THEN UNCHANGED <<repo, log>>
            ELSE \/ /\ repo.origin # NoRemote
                    /\ repo.behind = 0
                    /\ repo' = [repo EXCEPT !.ahead = 0, !.tracking = TRUE]
                    /\ log' = Append(log, Op("push", TRUE))
                 \/ /\ repo' = repo
                    /\ log' = Append(log, Op("push", FALSE))
       ELSE UNCHANGED <<repo, log>>
    /\ se' = [se EXCEPT !.pc = "ret"]
    /\ UNCHANGED <<cfg, sa, proc, lock, pidf, store, out>>

\* lines 474-477 with push_changes (301-308): the push may be rejected
Decide ==
    /\ se.pc = "decide"
    /\ IF se.ahead > 0 \/ ~origin_branch_exists(repo)
       THEN IF ~remote_exists(repo)
            THEN UNCHANGED <<repo, log>>
            ELSE \/ /\ repo.origin # NoRemote
                    /\ repo.behind = 0
                    /\ repo' = [repo EXCEPT !.ahead = 0, !.tracking = TRUE]
                    /\ log' = Append(log, Op("push", TRUE))
                 \/ /\ repo' = repo
                    /\ log' = Append(log, Op("push", FALSE))
       ELSE UNCHANGED <<repo, log>>
    /\ se' = [se EXCEPT !.pc = "ret"]
    /\ UNCHANGED <<cfg, sa, proc, lock, pidf, store, out>>

---------------------------------------------------------------------------
(* The configuration store: Config.load / Config.save, add, remove, and the
   interval of run_loop *)

\* line 29
DEFAULT_INTERVAL_MINUTES == 5

\* line 32
MIN_INTERVAL_MINUTES == 1

Max(a, b) == IF a >= b THEN a ELSE b

\* what "interval_minutes" can hold in the file and what --interval can be
\* given as: absent, or an integer
Intervals == {None} \cup {Some(n) : n \in (0 - 1)..MaxInterval}

\* Path(...).expanduser().resolve(), lines 47, 376 and 394: a directory can be
\* spelled in more than one way (relative, through a symlink, with ~); two
\* spellings of each directory are told apart here.  A resolved path resolves
\* to itself.
Spellings == 1..(2 * MaxEntries)

resolve(spelling) == (spelling + 1) \div 2

\* no configuration file yet (line 73)
NoStore == [exists |-> FALSE, entries |-> <<>>, interval_minutes |-> None]

\* nothing was run yet
NoOut == [cmd |-> "none", path |-> 0, arg |-> None, said |-> "none", interval |-> 0]

\* Config.load, lines 72-93: the Config object it returns.  A missing file
\* gives the defaults; the interval read from the file is clamped.
Load(file) ==
    IF ~file.exists
    THEN [entries |-> <<>>, interval_minutes |-> DEFAULT_INTERVAL_MINUTES]
    ELSE [entries |-> file.entries,
          interval_minutes |->
              Max(MIN_INTERVAL_MINUTES,
                  IF file.interval_minutes = None THEN DEFAULT_INTERVAL_MINUTES
                  ELSE file.interval_minutes[1])]

\* Config.save, lines 95-104: the file written from a Config object
Save(c) ==
    [exists |-> TRUE, entries |-> c.entries,
     interval_minutes |-> Some(c.interval_minutes)]

\* the file after Config.load returned: a missing file was created with the
\* defaults (lines 73-82)
Loaded(file) == IF file.exists THEN file ELSE Save(Load(file))

TrackedPaths(file) == {file.entries[k].path : k \in DOMAIN file.entries}

\* the entries of es that are not at path p, in order (line 396)
RECURSIVE Without(_, _)
Without(es, p) ==
    IF es = <<>> THEN <<>>
    ELSE IF Head(es).path = p THEN Without(Tail(es), p)
         ELSE <<Head(es)>> \o Without(Tail(es), p)

\* an add that appends without looking for the path
AddEntryNoLookup(spelling, remote, push) ==
    LET c == Load(store)
        e == EntryOf(resolve(spelling), remote, push)
    IN /\ Len(c.entries) < MaxEntries + 1
       /\ store' = Save([c EXCEPT !.entries = Append(@, e)])
       /\ out' = [NoOut EXCEPT !.cmd = "add", !.path = e.path, !.said = "added"]
       /\ UNCHANGED <<proc, lock, pidf, cfg, sa, se, repo, log>>

\* add_entry, lines 373-389
AddEntry(spelling, remote, push) ==
    LET c == Load(store)
        e == EntryOf(resolve(spelling), remote, push)
    IN /\ IF \E k \in DOMAIN c.entries : c.entries[k].path = e.path
          THEN /\ store' = Loaded(store)
               /\ out' = [NoOut EXCEPT !.cmd = "add", !.path = e.path,
                                       !.said = "tracked"]
          ELSE /\ store' = Save([c EXCEPT !.entries = Append(@, e)])
               /\ out' = [NoOut EXCEPT !.cmd = "add", !.path = e.path,
                                       !.said = "added"]
       /\ UNCHANGED <<proc, lock, pidf, cfg, sa, se, repo, log>>

\* remove_entry, lines 392-401: the file is rewritten in either case
RemoveEntry(spelling) ==
    LET c == Load(store)
        target == resolve(spelling)
        kept == Without(c.entries, target)
    IN /\ store' = Save([c EXCEPT !.entries = kept])
       /\ out' = [NoOut EXCEPT !.cmd = "remove", !.path = target,
                               !.said = IF Len(kept) < Len(c.entries)
                                        THEN "removed" ELSE "notfound"]
       /\ UNCHANGED <<proc, lock, pidf, cfg, sa, se, repo, log>>

\* run_loop line 494: `args.interval or cfg.interval_minutes`; Python's `or`
\* takes the right operand when the left one is None or 0
IntervalOr(arg, configured) ==
    IF arg = None \/ arg = Some(0) THEN configured ELSE arg[1]

\* run_loop lines 495-497
Clamp(interval) ==
    IF interval < MIN_INTERVAL_MINUTES THEN MIN_INTERVAL_MINUTES ELSE interval

\* run_loop, lines 493-497: the interval the loop will sleep for
RunLoopInterval(arg) ==
    LET c == Load(store)
        interval == IntervalOr(arg, c.interval_minutes)
    IN /\ store' = Loaded(store)
       /\ out' = [NoOut EXCEPT !.cmd = "run", !.arg = arg,
                               !.said = IF interval < MIN_INTERVAL_MINUTES
                                        THEN "low" ELSE "none",
                               !.interval = Clamp(interval)]
       /\ UNCHANGED <<proc, lock, pidf, cfg, sa, se, repo, log>>

\* somebody edits "interval_minutes" in the configuration file by hand
EditInterval(v) ==
    /\ store.exists
    /\ store' = [store EXCEPT !.interval_minutes = v]
    /\ out' = NoOut
    /\ UNCHANGED <<proc, lock, pidf, cfg, sa, se, repo, log>>

---------------------------------------------------------------------------
(* Specifications *)

\* The lifecycle is examined with the pass at rest.  The lock path before the
\* first invocation: absent, or left by an earlier run (a dead owner, a live
\* process of another user, unreadable content).
LockInit ==
    /\ proc = [i \in Invs |-> NewProc]
    /\ lock \in {NoFile, File(0, DeadPid), File(0, ForeignPid), File(0, Unparsable)}
    /\ pidf = NoPid
    /\ cfg = [entries |-> <<>>, no_push_all |-> FALSE]
    /\ sa = [pc |-> "idle", idx |-> 1, attempted |-> <<>>, failed |-> {},
            again |-> FALSE, edited |-> FALSE]
    /\ se = Idle
    /\ repo = NoRepo
    /\ log = <<>>
    /\ store = NoStore
    /\ out = NoOut

\* The pass is examined for one invocation, the lifecycle at rest: any
\* configuration store Config.load can return, any --no-push-all.
SyncInit ==
    /\ cfg \in [entries : {Keyed(es) : es \in EntryLists}, no_push_all : BOOLEAN]
    /\ sa = [pc |-> "idle", idx |-> 1, attempted |-> <<>>, failed |-> {},
            again |-> FALSE, edited |-> FALSE]
    /\ se = Idle
    /\ repo = NoRepo
    /\ log = <<>>
    /\ store = NoStore
    /\ out = NoOut
    /\ proc = [i \in Invs |-> NewProc]
    /\ lock = NoFile
    /\ pidf = NoPid

\* The configuration commands are examined with lifecycle and pass at rest.
ConfInit ==
    /\ store = NoStore
    /\ out = NoOut
    /\ proc = [i \in Invs |-> NewProc]
    /\ lock = NoFile
    /\ pidf = NoPid
    /\ cfg = [entries |-> <<>>, no_push_all |-> FALSE]
    /\ sa = [pc |-> "idle", idx |-> 1, attempted |-> <<>>, failed |-> {},
            again |-> FALSE, edited |-> FALSE]
    /\ se = Idle
    /\ repo = NoRepo
    /\ log = <<>>

ConfNext ==
    \/ \E spelling \in Spellings, remote \in {NoRemote, "u1"}, push \in BOOLEAN :
         AddEntry(spelling, remote, push)
    \/ \E spelling \in Spellings : RemoveEntry(spelling)
    \/ \E arg \in Intervals : RunLoopInterval(arg)
    \/ \E v \in Intervals : EditInterval(v)

SyncNext ==
    \/ SyncAllBegin
    \/ SyncEntryCall
    \/ SyncEntryDone
    \/ Edit
    \/ GitTimeout
    \/ EnsureRepo
    \/ UpsertRemote
    \/ AlignBranch
    \/ PushOff
    \/ PushOn
    \/ NoRemotePath
    \/ Probe
    \/ Fetch
    \/ CommitAfterFetch
    \/ Diverge
    \/ RebaseTimeout
    \/ Decide

SpecLock == LockInit /\ [][LockNext]_vars

SpecLockFair == SpecLock /\ \A i \in Invs : WF_vars(Step(i))

SpecSync == SyncInit /\ [][SyncNext]_vars

SpecConf == ConfInit /\ [][ConfNext]_vars

---------------------------------------------------------------------------
(* Pass properties *)

\* sync_entry is at work on, or has just finished, the entry at sa.idx
InEntry == se.pc # "idle"

NetworkOps == {"probe", "fetch", "rebase", "rebase-abort", "push"}

\* C3: with pushes globally disabled no entry fetches or pushes; without the
\* override the entry's own push flag is the one the procedure follows.
C3_PushOverride ==
    InEntry =>
        /\ cfg.no_push_all => (~Issued("fetch") /\ ~Issued("push"))
        /\ ~cfg.no_push_all => (se.push = Entry.push)

\* C4: push on, a remote configured, the probe reports unreachable: when the
\* procedure returns, pending changes were committed and nothing was fetched or
\* pushed.
C4_OfflineStillCommits ==
    (se.pc = "ret" /\ se.push /\ Has("probe", FALSE))
        => /\ repo.dirty => Issued("commit")
           /\ ~Issued("fetch") /\ ~Issued("push")

\* C7: push on, local changes present, no remote named origin (other remotes
\* or not): when the procedure returns, a commit was made and no probe, fetch
\* or push was attempted.
C7_NoOriginCommitsLocally ==
    (se.pc = "ret" /\ se.push /\ repo.origin = NoRemote
       /\ (repo.dirty \/ Issued("add")))
        => /\ Issued("commit")
           /\ ~Issued("probe") /\ ~Issued("fetch") /\ ~Issued("push")

\* C8: with the effective push flag off the procedure never goes past the
\* commit: no probe, fetch, rebase or push is issued, remote or not, and when
\* it returns with the tree still dirty the commit was tried and declined.
C8_PushOffCommitsOnly ==
    (InEntry /\ ~se.push)
        => /\ se.pc \in {"ensure", "upsert", "align", "gate", "ret", "raised"}
           /\ \A op \in NetworkOps : ~Issued(op)
           /\ (se.pc = "ret" /\ repo.dirty) => Has("commit", FALSE)

\* C8 witness: push off, a remote exists, the changes were committed and the
\* procedure returned.
C8_Witness ==
    /\ se.pc = "ret" /\ ~se.push
    /\ remote_exists(repo)
    /\ Has("commit", TRUE) /\ ~repo.dirty

\* C9: the entries are attempted once each, in list order; an entry whose
\* procedure raised is followed by the next one, and the pass is over only
\* when the last entry was attempted.
C9_FailureIsolation ==
    /\ Len(sa.attempted) <= Len(cfg.entries)
    /\ \A k \in DOMAIN sa.attempted : sa.attempted[k] = cfg.entries[k].path
    /\ sa.failed \subseteq {sa.attempted[k] : k \in DOMAIN sa.attempted}
    /\ sa.pc = "loop" => Len(sa.attempted) = (IF InEntry THEN sa.idx ELSE sa.idx - 1)
    /\ sa.pc = "done" => Len(sa.attempted) = Len(cfg.entries)

\* C9 witness: the pass is over, the first entry's procedure raised and the
\* entries after it were attempted all the same.
C9_Witness ==
    /\ sa.pc = "done"
    /\ 1 \in sa.failed
    /\ Len(sa.attempted) = Len(cfg.entries)
    /\ Len(sa.attempted) >= 2

\* sync_entry runs for the second time in succession on the same path, the
\* working directory untouched since the first run
SecondRun == InEntry /\ sa.again /\ ~sa.edited

\* C11 as stated: a second run in succession, nothing changed in the working
\* directory in between, attempts no commit.
C11_SecondRunNoCommit ==
    SecondRun => (~Issued("add") /\ ~Issued("commit"))

\* C11 amended: a second run in succession that finds the tree clean (the
\* first run committed, or there was nothing to commit) attempts no commit.
C11_SecondRunCleanNoCommit ==
    (SecondRun /\ ~se.dirty0) => (~Issued("add") /\ ~Issued("commit") /\ ~repo.dirty)

\* C11 witness: the second run went all the way through fetch and decision on
\* a clean tree.
C11_Witness ==
    /\ SecondRun /\ ~se.dirty0
    /\ se.pc = "ret" /\ se.push /\ Has("fetch", TRUE)

\* C12: a run that found no repository at the path and returned without
\* failing leaves a repository with the pinned branch checked out and, when
\* the entry has a remote URL, a remote named origin pointing at it.
C12_Bootstrap ==
    (se.pc = "ret" /\ Issued("init-b"))
        => /\ repo.exists
           /\ repo.head = PinnedBranch
           /\ Entry.remote # NoRemote => repo.origin = Entry.remote

\* how many times, and where in the entry's pass, a command was issued
Count(name) == Cardinality({k \in DOMAIN log : log[k][1] = name})

Before(a, b) ==
    \A k \in DOMAIN log : log[k][1] = b => \E j \in 1..(k - 1) : log[j][1] = a

\* C13 as stated: the branch found both ahead and behind after the fetch is
\* rebased before any push, and when the rebase succeeded the counts are
\* recomputed and exactly one push is issued in the pass.
C13_DivergedRebaseThenPush ==
    se.diverged =>
        /\ Issued("rebase") /\ Before("rebase", "push")
        /\ se.pc = "decide" => (se.ahead = ahead_behind(repo)[1]
                                  /\ se.behind = ahead_behind(repo)[2])
        /\ (se.pc = "ret" /\ Has("rebase", TRUE)) => Count("push") = 1

\* C13 amended: rebase before any push; when the rebase succeeded the counts
\* are recomputed, and one push is issued if the recomputed ahead count is
\* positive, none if the rebase left nothing to push.
C13_DivergedRebaseThenPushIfAhead ==
    se.diverged =>
        /\ Issued("rebase") /\ Before("rebase", "push")
        /\ se.pc = "decide" => (se.ahead = ahead_behind(repo)[1]
                                  /\ se.behind = ahead_behind(repo)[2]
                                  /\ se.behind = 0)
        /\ (se.pc = "ret" /\ Has("rebase", TRUE))
             => Count("push") = (IF se.ahead > 0 THEN 1 ELSE 0)
        /\ (se.pc = "ret" /\ Has("rebase", FALSE)) => ~Issued("push")

\* C13 witness: a diverged branch was rebased and then pushed, once.
C13_Witness ==
    /\ se.pc = "ret" /\ se.diverged
    /\ Has("rebase", TRUE) /\ Has("push", TRUE)
    /\ Count("push") = 1

---------------------------------------------------------------------------
(* Configuration properties *)

\* the interval the last `run` asked for: the override when one was given,
\* the value in the configuration file otherwise
Requested ==
    IF out.arg # None THEN out.arg[1]
    ELSE IF store.interval_minutes = None THEN DEFAULT_INTERVAL_MINUTES
         ELSE store.interval_minutes[1]

\* C14: the interval the run loop uses is at least the minimum, and an
\* interval below the minimum, from the configuration or from the override (0
\* and negative numbers included), is replaced by the minimum itself.
C14_IntervalClamped ==
    out.cmd = "run" =>
        /\ out.interval >= MIN_INTERVAL_MINUTES
        /\ Requested < MIN_INTERVAL_MINUTES => out.interval = MIN_INTERVAL_MINUTES

\* C15: no two tracked entries share a resolved path; an add of a tracked
\* path reports it and leaves the tracked set as it was; a remove of an
\* untracked path reports not-found and leaves the tracked set as it was.
C15_TrackedSet ==
    /\ [](\A j, k \in DOMAIN store.entries :
            j # k => store.entries[j].path # store.entries[k].path)
    /\ [][/\ (out'.cmd = "add" /\ out'.path \in TrackedPaths(store))
               => (out'.said = "tracked" /\ store'.entries = store.entries)
          /\ (out'.cmd = "remove" /\ out'.path \notin TrackedPaths(store))
               => (out'.said = "notfound" /\ store'.entries = store.entries)
          /\ (out'.cmd = "add" /\ out'.path \notin TrackedPaths(store))
               => (out'.said = "added"
                     /\ TrackedPaths(store') = TrackedPaths(store) \cup {out'.path})
          /\ (out'.cmd = "remove" /\ out'.path \in TrackedPaths(store))
               => (out'.said = "removed"
                     /\ TrackedPaths(store') = TrackedPaths(store) \ {out'.path})]_vars

\* C15 witness: with two paths tracked, an add of one of them was turned down.
C15_Witness ==
    /\ out.cmd = "add" /\ out.said = "tracked"
    /\ Len(store.entries) >= 2
    /\ out.path \in TrackedPaths(store)

---------------------------------------------------------------------------
(* Lifecycle properties, continued *)

\* C16: while a run is in its loop (detached or not) the lock file records
\* the pid of the process executing the passes, and a liveness probe of the
\* recorded pid finds it alive.
C16_LockRecordsLoopPid ==
    \A i \in Invs :
        (proc[i].cmd = "run" /\ proc[i].pc \in {"loop", "pass", "check", "sleep"})
            => /\ lock # NoFile
               /\ lock.content = getpid(i)
               /\ KillProbe(lock.content) = "ok"

---------------------------------------------------------------------------
(* Pass properties, continued *)

\* the step issues command name (as the first command it adds to the log)
Issues(name) ==
    /\ Len(log') > Len(log)
    /\ log'[Len(log) + 1][1] = name

\* C17: a rebase is issued only on a clean working tree, also when the commit
\* before it was declined.
C17_CleanTreeAtRebase ==
    [][Issues("rebase") => ~has_changes(repo)]_vars

\* C18: a commit is reported only when one was created; a commit that git
\* declined is followed by no report of a commit.
C18_DeclinedCommitNotReported ==
    \A k \in DOMAIN log :
        log[k][1] = "log-committed" => (k > 1 /\ log[k - 1] = Op("commit", TRUE))

\* C19: a fetch is issued only with the effective push flag on, a remote
\* present and a successful probe earlier in the pass; a rebase or a push only
\* after a successful fetch; a failed fetch is the last thing the pass does
\* for the entry.
C19_NetworkOrder ==
    /\ Issued("fetch") =>
         /\ se.push /\ remote_exists(repo)
         /\ \A k \in DOMAIN log :
              log[k][1] = "fetch" => \E j \in 1..(k - 1) : log[j] = Op("probe", TRUE)
    /\ \A k \in DOMAIN log :
         log[k][1] \in {"rebase", "rebase-abort", "push"}
           => \E j \in 1..(k - 1) : log[j] = Op("fetch", TRUE)
    /\ \A k \in DOMAIN log :
         log[k] = Op("fetch", FALSE) => (k = Len(log) /\ se.pc \in {"ret", "raised"})
    /\ Count("fetch") <= 1

\* C19 witness: the fetch failed with changes pending; the procedure returned
\* with the changes uncommitted.
C19_Witness ==
    /\ se.pc = "ret"
    /\ Has("probe", TRUE) /\ Has("fetch", FALSE)
    /\ has_changes(repo)

\* C20: past a successful fetch (and rebase, when one was needed) a push is
\* issued exactly when the computed ahead count is positive or the pinned
\* branch has no remote-tracking branch; without a remote-tracking branch the
\* counts are (0, 0) whatever the local commits, no rebase is attempted and
\* the push happens; otherwise nothing is pushed.
C20_PushDecision ==
    /\ [][(se.pc = "decide" /\ se'.pc = "ret")
            => /\ Issues("push") <=> (se.ahead > 0 \/ ~origin_branch_exists(repo))
               /\ ~Issues("push") => log' = log]_vars
    /\ [](/\ ~origin_branch_exists(repo) => ahead_behind(repo) = <<0, 0>>
          /\ (se.pc = "decide" /\ ~origin_branch_exists(repo))
               => (se.ahead = 0 /\ se.behind = 0 /\ ~Issued("rebase"))
          /\ se.pc = "decide" => (Has("fetch", TRUE) /\ ~Has("rebase", FALSE))
          /\ Count("push") <= 1)

\* C20 witness: the first push of a branch that had local commits and no
\* remote-tracking branch: the computed ahead count was 0, no rebase ran, the
\* push was issued.
C20_Witness ==
    /\ se.pc = "ret"
    /\ Has("fetch", TRUE) /\ ~Issued("rebase")
    /\ se.ahead = 0
    /\ Has("push", TRUE)

\* C21: a rebase that failed is followed at once by a rebase abort, by no
\* push and by no exception out of the procedure, and when the abort succeeded
\* the repository is not left in the middle of a rebase.
C21_RebaseFailureHandled ==
    Has("rebase", FALSE) =>
        /\ \A k \in DOMAIN log :
             log[k] = Op("rebase", FALSE)
               => (k < Len(log) /\ log[k + 1][1] = "rebase-abort")
        /\ ~Issued("push")
        /\ se.pc = "ret"
        /\ Has("rebase-abort", TRUE) => ~repo.rebasing

\* C22: for an entry with a remote URL the reconciliation step leaves a
\* remote named origin: it registers the URL when there was none (other
\* remotes or not) and leaves an existing origin as it was.
C22_RemoteReconciled ==
    [][(se.pc = "upsert" /\ se'.pc = "align" /\ Entry.remote # NoRemote)
         => /\ repo'.origin # NoRemote
            /\ repo.origin = NoRemote => repo'.origin = Entry.remote
            /\ repo.origin # NoRemote => repo'.origin = repo.origin]_vars

\* The lock file holds no decimal pid (lines 136-139: int() rejects it).
NotAPid == lock # NoFile /\ lock.content = Unparsable

\* Invocation i is in pid_lock and holds no descriptor of the lock file yet
\* (lines 134-155).
Acquiring(i) == proc[i].pc \in {"open", "read", "kill", "unlink", "retry"}

\* C23: while the lock file holds no decimal pid, no step of an acquiring
\* invocation removes or changes the file or takes the invocation on towards
\* the locked scope, and the invocation that reads the file aborts ("Lockfile
\* exists"); once the creator of such a file is gone, the file stays as it is.
C23_NonPidLockAborts ==
    /\ [][\A i \in Invs :
            (/\ NotAPid
             /\ Acquiring(i)
             /\ proc'[i].pc # proc[i].pc
             /\ proc'[i].err \notin {"interrupt", "sigterm"})
              => /\ lock' = lock
                 /\ proc'[i].pc # "write"
                 /\ proc[i].pc = "read"
                      => proc'[i].pc = "aborted" /\ proc'[i].err = "exists"]_vars
    /\ [][(NotAPid /\ (lock.ino \in Invs => proc[lock.ino].pc \in Terminal))
            => lock' = lock]_vars
====
